---- MODULE Spec2Model ----
(***************************************************************************)
(* Model of stacker_blueprints/elasticsearch.py: the Domain blueprint,     *)
(* which fills a CloudFormation template from a variable set in one        *)
(* synchronous pass of five steps (Domain.create_template).                *)
(*                                                                         *)
(* Representation of Python values:                                       *)
(*   - a str whose characters the code inspects (ElasticsearchVersion is   *)
(*     compared with "<", Subnets is split on ",") is a sequence of        *)
(*     one-character strings; every other str is a TLA+ string;            *)
(*   - a list is a sequence, a dict a function on its keys;                *)
(*   - a literal string in a list that can also hold intrinsic-function    *)
(*     objects (the SecurityGroups list, the items of a Join) is Lit(s);   *)
(*   - Ref, GetAtt, Join are records naming the intrinsic function.        *)
(***************************************************************************)
EXTENDS Integers, Sequences, FiniteSets, TLC

VARIABLES variables, template, pc, raised

vars == <<variables, template, pc, raised>>

(***************************************************************************)
(* Bounds of the model.                                                    *)
(***************************************************************************)
MaxRoles == 2
MaxNetworks == 2

(***************************************************************************)
(* Module-level constants of elasticsearch.py.                             *)
(***************************************************************************)
ES_DOMAIN == "ESDomain"
DNS_RECORD == "ESDomainDNSRecord"
LINKED_ROLE_NAME == "ESLinkedRole"
POLICY_NAME == "ESDomainAccessPolicy"
SECURITY_GROUP == "ESSecurityGroup"

(***************************************************************************)
(* Python's None, and the empty dict {}.                                   *)
(***************************************************************************)
None == [NoneType |-> "None"]
EmptyDict == [k \in {} |-> ""]

(***************************************************************************)
(* troposphere intrinsic functions and the literal wrapper.                *)
(***************************************************************************)
Ref(name) == [Fn |-> "Ref", Target |-> name, Arg |-> ""]
GetAtt(name, attr) == [Fn |-> "GetAtt", Target |-> name, Arg |-> attr]
Lit(s) == [Fn |-> "Lit", Target |-> "", Arg |-> s]
Join(sep, items) == [Fn |-> "Join", Sep |-> sep, Items |-> items]

(***************************************************************************)
(* Domain.VARIABLES: the declared type of every variable.                  *)
(***************************************************************************)
VARIABLES_type ==
  [Roles |-> "list", CreateLinkedRole |-> "bool",
   InternalZoneId |-> "str", InternalZoneName |-> "str",
   InternalHostName |-> "str", AdvancedOptions |-> "dict",
   DomainName |-> "str", EBSOptions |-> "dict",
   ElasticsearchClusterConfig |-> "dict", ElasticsearchVersion |-> "str",
   EncryptionAtRestKeyId |-> "str", SnapshotOptions |-> "dict",
   SecurityGroups |-> "list", Subnets |-> "str", Tags |-> "list",
   TrustedNetworks |-> "list", VpcId |-> "str"]

\* The str variables modelled as character sequences.
CharStrings == {"ElasticsearchVersion", "Subnets"}

(***************************************************************************)
(* Domain.VARIABLES: the defaults ("Roles" has none and is always given).  *)
(***************************************************************************)
VARIABLES_default(roles) ==
  [Roles |-> roles, CreateLinkedRole |-> FALSE,
   InternalZoneId |-> "", InternalZoneName |-> "", InternalHostName |-> "",
   AdvancedOptions |-> EmptyDict, DomainName |-> "",
   EBSOptions |-> EmptyDict, ElasticsearchClusterConfig |-> EmptyDict,
   ElasticsearchVersion |-> <<"5", ".", "1">>,
   EncryptionAtRestKeyId |-> "", SnapshotOptions |-> EmptyDict,
   SecurityGroups |-> <<>>, Subnets |-> <<>>, Tags |-> <<>>,
   TrustedNetworks |-> <<>>, VpcId |-> ""]

(***************************************************************************)
(* Python truth value of variables[key], by the declared type.             *)
(***************************************************************************)
Truthy(vs, key) ==
  CASE VARIABLES_type[key] = "bool" -> vs[key]
    [] VARIABLES_type[key] = "list" -> Len(vs[key]) > 0
    [] VARIABLES_type[key] = "dict" -> DOMAIN vs[key] # {}
    [] VARIABLES_type[key] = "str" ->
         IF key \in CharStrings THEN Len(vs[key]) > 0 ELSE vs[key] # ""

(***************************************************************************)
(* Python str ordering: lexicographic by code point, a proper prefix is    *)
(* smaller.  ord covers the characters the model's strings use.            *)
(***************************************************************************)
ord ==
  ("," :> 44) @@ ("." :> 46) @@ ("0" :> 48) @@ ("1" :> 49) @@ ("2" :> 50)
  @@ ("3" :> 51) @@ ("5" :> 53) @@ ("6" :> 54) @@ ("8" :> 56)
  @@ ("a" :> 97) @@ ("b" :> 98)

RECURSIVE StrLess(_, _)
StrLess(a, b) ==
  IF Len(b) = 0 THEN FALSE
  ELSE IF Len(a) = 0 THEN TRUE
  ELSE IF ord[Head(a)] # ord[Head(b)] THEN ord[Head(a)] < ord[Head(b)]
  ELSE StrLess(Tail(a), Tail(b))

(***************************************************************************)
(* str.split(sep) for a one-character separator: the pieces between the    *)
(* separators, empty pieces kept.                                          *)
(***************************************************************************)
RECURSIVE SplitFrom(_, _, _)
SplitFrom(s, sep, cur) ==
  IF Len(s) = 0 THEN <<cur>>
  ELSE IF Head(s) = sep THEN <<cur>> \o SplitFrom(Tail(s), sep, <<>>)
  ELSE SplitFrom(Tail(s), sep, Append(cur, Head(s)))

split(s, sep) == SplitFrom(s, sep, <<>>)

(***************************************************************************)
(* Template.add_resource / Template.add_output: append, in call order.     *)
(***************************************************************************)
EmptyTemplate == [resources |-> <<>>, outputs |-> <<>>]

add_resource(t, res) == [t EXCEPT !.resources = Append(@, res)]
add_output(t, name, value) ==
  [t EXCEPT !.outputs = Append(@, [title |-> name, Value |-> value])]

Resource(title, type, props) ==
  [title |-> title, type |-> type, props |-> props]

(***************************************************************************)
(* Domain.get_allowed_actions                                              *)
(***************************************************************************)
get_allowed_actions ==
  <<"es:ESHttpGet", "es:ESHttpHead", "es:ESHttpPost", "es:ESHttpDelete">>

(***************************************************************************)
(* Domain.create_security_group: the condition of the step (line 158) and  *)
(* the resource it adds.                                                   *)
(***************************************************************************)
\* Variant: the test of SecurityGroups is left out.
ShouldCreateSecurityGroup_vpc_only(vs) == Truthy(vs, "VpcId")

ShouldCreateSecurityGroup(vs) ==
  Truthy(vs, "VpcId") /\ ~Truthy(vs, "SecurityGroups")

SecurityGroupResource(vs) ==
  Resource(SECURITY_GROUP, "AWS::EC2::SecurityGroup",
           [GroupDescription |-> "Security group for ElasticSearch",
            VpcId |-> vs.VpcId])

(***************************************************************************)
(* Domain.create_dns_record: should_create_dns (all of the three) and the  *)
(* record set.                                                             *)
(***************************************************************************)
\* Variant: any() in place of all().
should_create_dns_any(vs) ==
  \/ Truthy(vs, "InternalZoneId")
  \/ Truthy(vs, "InternalZoneName")
  \/ Truthy(vs, "InternalHostName")

should_create_dns(vs) ==
  /\ Truthy(vs, "InternalZoneId")
  /\ Truthy(vs, "InternalZoneName")
  /\ Truthy(vs, "InternalHostName")

DnsRecordResource(vs) ==
  Resource(DNS_RECORD, "AWS::Route53::RecordSet",
           [HostedZoneId |-> vs.InternalZoneId,
            Comment |-> "ES Domain CNAME Record",
            Name |-> vs.InternalHostName \o "." \o vs.InternalZoneName,
            Type |-> "CNAME",
            TTL |-> "120",
            ResourceRecords |-> <<GetAtt(ES_DOMAIN, "DomainEndpoint")>>])

(***************************************************************************)
(* Domain.get_access_policy: one statement per trusted network, in input   *)
(* order; None when there is no statement.                                 *)
(***************************************************************************)
AccessStatement(trusted_network) ==
  [Effect |-> "Allow",
   Action |-> get_allowed_actions,
   Condition |-> [IpAddress |-> [SourceIp |-> trusted_network]],
   Principal |-> "*"]

\* Variant: the policy is built without the "if statements" test.
get_access_policy_unguarded(vs) ==
  [Statement |-> [i \in 1..Len(vs.TrustedNetworks) |->
                    AccessStatement(vs.TrustedNetworks[i])]]

get_access_policy(vs) ==
  LET statements ==
        [i \in 1..Len(vs.TrustedNetworks) |->
           AccessStatement(vs.TrustedNetworks[i])]
  IN  IF Len(statements) > 0 THEN [Statement |-> statements] ELSE None

(***************************************************************************)
(* Domain.create_domain: the two validations.                              *)
(***************************************************************************)
NoError == "NoError"
EncryptionError ==
  "TypeError: Encryption at rest supported for ES versions >= 5.1"
SecurityGroupError ==
  "TypeError: If no security groups are passed, VpcId must be passed for security group creation."

\* Variant: "<=" in place of "<".
VersionTooLow_inclusive(vs) ==
  ~StrLess(<<"5", ".", "1">>, vs.ElasticsearchVersion)

VersionTooLow(vs) == StrLess(vs.ElasticsearchVersion, <<"5", ".", "1">>)

\* Variant: the "not" before VpcId is missing.
NoSecurityGroupSource_inverted(vs) ==
  ~Truthy(vs, "SecurityGroups") /\ Truthy(vs, "VpcId")

NoSecurityGroupSource(vs) ==
  ~Truthy(vs, "SecurityGroups") /\ ~Truthy(vs, "VpcId")

\* The exception create_domain raises on vs, in the order of the checks.
DomainError(vs) ==
  IF Truthy(vs, "EncryptionAtRestKeyId") /\ VersionTooLow(vs)
    THEN EncryptionError
  ELSE IF Truthy(vs, "Subnets") /\ NoSecurityGroupSource(vs)
    THEN SecurityGroupError
  ELSE NoError

(***************************************************************************)
(* Domain.create_domain: the params dict.                                  *)
(***************************************************************************)
\* Variant: the explicit list is ignored.
SecurityGroupIds_always_ref(vs) == <<Ref(SECURITY_GROUP)>>

SecurityGroupIds(vs) ==
  IF Truthy(vs, "SecurityGroups") THEN vs.SecurityGroups
  ELSE <<Ref(SECURITY_GROUP)>>

optional_keys ==
  <<"AdvancedOptions", "DomainName", "EBSOptions",
    "ElasticsearchClusterConfig", "SnapshotOptions", "Tags">>

\* Variant: the loop copies every key, empty or not.
RECURSIVE AddOptional_unchecked(_, _, _)
AddOptional_unchecked(vs, params, i) ==
  IF i > Len(optional_keys) THEN params
  ELSE AddOptional_unchecked(vs,
                             (optional_keys[i] :> vs[optional_keys[i]])
                               @@ params,
                             i + 1)

\* One pass of the loop body over optional_keys[i..].
RECURSIVE AddOptional(_, _, _)
AddOptional(vs, params, i) ==
  IF i > Len(optional_keys) THEN params
  ELSE LET key == optional_keys[i]
       IN  AddOptional(vs,
                       IF Truthy(vs, key) THEN (key :> vs[key]) @@ params
                       ELSE params,
                       i + 1)

DomainParams(vs) ==
  LET p0 == ("ElasticsearchVersion" :> vs.ElasticsearchVersion)
      policy == get_access_policy(vs)
      p1 == IF policy # None THEN ("AccessPolicies" :> policy) @@ p0 ELSE p0
      p2 == IF Truthy(vs, "EncryptionAtRestKeyId")
              THEN ("EncryptionAtRestOptions" :>
                      [Enabled |-> TRUE,
                       KmsKeyId |-> vs.EncryptionAtRestKeyId]) @@ p1
              ELSE p1
      p3 == IF Truthy(vs, "Subnets")
              THEN ("VPCOptions" :>
                      [SecurityGroupIds |-> SecurityGroupIds(vs),
                       SubnetIds |-> split(vs.Subnets, ",")]) @@ p2
              ELSE p2
  IN  AddOptional(vs, p3, 1)

DomainResource(vs) ==
  Resource(ES_DOMAIN, "AWS::Elasticsearch::Domain", DomainParams(vs))

(***************************************************************************)
(* Domain.create_roles_policy: the IAM policy resource.                    *)
(***************************************************************************)
RolesPolicyResource(vs) ==
  LET statements ==
        <<[Effect |-> "Allow",
           Action |-> get_allowed_actions,
           Resource |->
             <<Join("/", <<GetAtt(ES_DOMAIN, "DomainArn"), Lit("*")>>)>>]>>
  IN  Resource(POLICY_NAME, "AWS::IAM::Policy",
               [PolicyName |-> POLICY_NAME,
                PolicyDocument |-> [Statement |-> statements],
                Roles |-> vs.Roles])

(***************************************************************************)
(* Domain.create_linked_role: the service-linked role.                     *)
(***************************************************************************)
LinkedRoleResource ==
  Resource(LINKED_ROLE_NAME, "AWS::IAM::ServiceLinkedRole",
           [AWSServiceName |-> "es.amazonaws.com"])

(***************************************************************************)
(* Domain.create_template: the five calls, in order.  pc is the index of   *)
(* the next call; Len(create_template) + 1 after the last one returned.    *)
(***************************************************************************)
\* Variant: the DNS record step is called before the domain step.
create_template_dns_first ==
  <<"create_security_group", "create_linked_role", "create_dns_record",
    "create_domain", "create_roles_policy">>

create_template ==
  <<"create_security_group", "create_linked_role", "create_domain",
    "create_dns_record", "create_roles_policy">>

AtStep(name) ==
  /\ raised = NoError
  /\ pc <= Len(create_template)
  /\ create_template[pc] = name

CreateSecurityGroup ==
  /\ AtStep("create_security_group")
  /\ template' =
       IF ShouldCreateSecurityGroup(variables)
         THEN add_output(add_resource(template,
                                      SecurityGroupResource(variables)),
                         "SecurityGroup", Ref(SECURITY_GROUP))
         ELSE template
  /\ pc' = pc + 1
  /\ UNCHANGED <<variables, raised>>

CreateLinkedRole ==
  /\ AtStep("create_linked_role")
  /\ template' =
       IF Truthy(variables, "CreateLinkedRole")
         THEN add_resource(template, LinkedRoleResource)
         ELSE template
  /\ pc' = pc + 1
  /\ UNCHANGED <<variables, raised>>

\* Variant: the resource and outputs are added before the validations.
CreateDomain_validate_after_add ==
  /\ AtStep("create_domain")
  /\ template' =
       add_output(
         add_output(
           add_resource(template, DomainResource(variables)),
           "DomainArn", GetAtt(ES_DOMAIN, "DomainArn")),
         "DomainEndpoint", GetAtt(ES_DOMAIN, "DomainEndpoint"))
  /\ IF DomainError(variables) # NoError
       THEN /\ raised' = DomainError(variables)
            /\ UNCHANGED pc
       ELSE /\ pc' = pc + 1
            /\ UNCHANGED raised
  /\ UNCHANGED variables

CreateDomain ==
  /\ AtStep("create_domain")
  /\ IF DomainError(variables) # NoError
       THEN /\ raised' = DomainError(variables)
            /\ UNCHANGED <<template, pc>>
       ELSE /\ template' =
                 add_output(
                   add_output(
                     add_resource(template, DomainResource(variables)),
                     "DomainArn", GetAtt(ES_DOMAIN, "DomainArn")),
                   "DomainEndpoint", GetAtt(ES_DOMAIN, "DomainEndpoint"))
            /\ pc' = pc + 1
            /\ UNCHANGED raised
  /\ UNCHANGED variables

CreateDnsRecord ==
  /\ AtStep("create_dns_record")
  /\ template' =
       IF should_create_dns(variables)
         THEN add_output(add_resource(template, DnsRecordResource(variables)),
                         "CNAME", Ref(DNS_RECORD))
         ELSE template
  /\ pc' = pc + 1
  /\ UNCHANGED <<variables, raised>>

\* Variant: the policy is only created for a non-empty Roles list.
CreateRolesPolicy_skip_empty ==
  /\ AtStep("create_roles_policy")
  /\ template' =
       IF Truthy(variables, "Roles")
         THEN add_resource(template, RolesPolicyResource(variables))
         ELSE template
  /\ pc' = pc + 1
  /\ UNCHANGED <<variables, raised>>

CreateRolesPolicy ==
  /\ AtStep("create_roles_policy")
  /\ template' = add_resource(template, RolesPolicyResource(variables))
  /\ pc' = pc + 1
  /\ UNCHANGED <<variables, raised>>

(***************************************************************************)
(* The variable sets the build is run on.                                  *)
(***************************************************************************)
SeqsUpTo(S, n) == UNION {[1..k -> S] : k \in 0..n}

RoleNames == {"role-A", "role-B"}
Networks == {"10.0.0.0/8", "192.168.0.0/16"}
Versions ==
  {<<"2", ".", "3">>, <<"5">>, <<"5", ".", "1">>, <<"6", ".", "8">>,
   <<"1", "0", ".", "2">>}
SubnetStrings == {<<>>, <<"a">>, <<"a", ",", "b">>}
SecurityGroupLists == {<<>>, <<Lit("sg-1")>>}
DictValues == {EmptyDict, [Key |-> "Value"]}
TagLists == {<<>>, <<[Key |-> "env", Value |-> "prod"]>>}

\* Everything that steers the steps varies; the lists and the optional
\* fields are fixed.
ControlSets ==
  {[VARIABLES_default(<<"role-A">>) EXCEPT
      !.CreateLinkedRole = linked,
      !.InternalZoneId = zid, !.InternalZoneName = zname,
      !.InternalHostName = host,
      !.ElasticsearchVersion = version, !.EncryptionAtRestKeyId = key,
      !.SecurityGroups = sgs, !.Subnets = subnets, !.VpcId = vpc] :
     linked \in BOOLEAN,
     zid \in {"", "Z1"}, zname \in {"", "example.com"}, host \in {"", "es"},
     version \in Versions, key \in {"", "kms-key-1"},
     sgs \in SecurityGroupLists, subnets \in SubnetStrings,
     vpc \in {"", "vpc-1"}}

\* The Roles and TrustedNetworks lists vary, with the inputs of the two
\* validations.
ListSets ==
  {[VARIABLES_default(roles) EXCEPT
      !.TrustedNetworks = nets,
      !.ElasticsearchVersion = version, !.EncryptionAtRestKeyId = key,
      !.SecurityGroups = sgs, !.Subnets = subnets, !.VpcId = vpc] :
     roles \in SeqsUpTo(RoleNames, MaxRoles),
     nets \in SeqsUpTo(Networks, MaxNetworks),
     version \in Versions, key \in {"", "kms-key-1"},
     sgs \in SecurityGroupLists, subnets \in SubnetStrings,
     vpc \in {"", "vpc-1"}}

\* The optional fields vary, with the inputs of the two validations.
OptionalSets ==
  {[VARIABLES_default(<<"role-A">>) EXCEPT
      !.AdvancedOptions = adv, !.DomainName = name, !.EBSOptions = ebs,
      !.ElasticsearchClusterConfig = cluster, !.SnapshotOptions = snap,
      !.Tags = tags,
      !.ElasticsearchVersion = version, !.EncryptionAtRestKeyId = key,
      !.Subnets = subnets, !.VpcId = vpc] :
     adv \in DictValues, name \in {"", "search"}, ebs \in DictValues,
     cluster \in DictValues, snap \in DictValues, tags \in TagLists,
     version \in Versions, key \in {"", "kms-key-1"},
     subnets \in SubnetStrings, vpc \in {"", "vpc-1"}}

VariableSets == ControlSets \cup ListSets \cup OptionalSets

Init ==
  /\ variables \in VariableSets
  /\ template = EmptyTemplate
  /\ pc = 1
  /\ raised = NoError

Next ==
  \/ CreateSecurityGroup
  \/ CreateLinkedRole
  \/ CreateDomain
  \/ CreateDnsRecord
  \/ CreateRolesPolicy

Spec == Init /\ [][Next]_vars

(***************************************************************************)
(* Observations of the state used by the properties below.                 *)
(***************************************************************************)
StepIndex(name) == CHOOSE i \in 1..Len(create_template) : create_template[i] = name
StepDone(name) == pc > StepIndex(name)
Failed == raised # NoError
Succeeded == raised = NoError /\ pc = Len(create_template) + 1
Finished == Failed \/ Succeeded
ValidationErrors == {EncryptionError, SecurityGroupError}

Titles == [i \in 1..Len(template.resources) |-> template.resources[i].title]
ResourcesTitled(title) ==
  {i \in 1..Len(template.resources) : template.resources[i].title = title}
OutputsTitled(title) ==
  {i \in 1..Len(template.outputs) : template.outputs[i].title = title}
OutputNames == {template.outputs[i].title : i \in 1..Len(template.outputs)}
DomainResources ==
  {template.resources[i] : i \in ResourcesTitled(ES_DOMAIN)}

RECURSIVE IsSubsequence(_, _)
IsSubsequence(s, t) ==
  IF Len(s) = 0 THEN TRUE
  ELSE IF Len(t) = 0 THEN FALSE
  ELSE IF Head(s) = Head(t) THEN IsSubsequence(Tail(s), Tail(t))
  ELSE IsSubsequence(s, Tail(t))

\* The resource identifiers an intrinsic-function value, a resource, the
\* template refer to.
ValueRefs(v) == IF v.Fn \in {"Ref", "GetAtt"} THEN {v.Target} ELSE {}
SeqRefs(seq) == UNION {ValueRefs(seq[i]) : i \in 1..Len(seq)}
ResourceRefs(r) ==
  CASE r.type = "AWS::Elasticsearch::Domain" ->
         IF "VPCOptions" \in DOMAIN r.props
           THEN SeqRefs(r.props["VPCOptions"].SecurityGroupIds)
           ELSE {}
    [] r.type = "AWS::Route53::RecordSet" -> SeqRefs(r.props.ResourceRecords)
    [] r.type = "AWS::IAM::Policy" ->
         UNION {UNION {SeqRefs(st.Resource[j].Items) :
                         j \in 1..Len(st.Resource)} :
                  st \in {r.props.PolicyDocument.Statement[k] :
                            k \in 1..Len(r.props.PolicyDocument.Statement)}}
    [] OTHER -> {}
TemplateRefs ==
  UNION {ResourceRefs(template.resources[i]) :
           i \in 1..Len(template.resources)}
  \cup UNION {ValueRefs(template.outputs[i].Value) :
                i \in 1..Len(template.outputs)}

(***************************************************************************)
(* C1 (as stated): whenever create_template has raised, the template holds *)
(* no resource and no output.                                              *)
(***************************************************************************)
C1_NothingLeftBehind == Failed => template = EmptyTemplate

(***************************************************************************)
(* C1 (amended): whenever create_template has raised, it raised in the     *)
(* domain step and no later step ran: the template holds no domain, DNS    *)
(* record or roles policy resource and none of their outputs, and holds    *)
(* exactly what the security group and linked role steps added.            *)
(***************************************************************************)
C1_AbortsInDomainStep ==
  Failed =>
    /\ raised \in ValidationErrors
    /\ pc = StepIndex("create_domain")
    /\ Titles =
         (IF variables.VpcId # "" /\ Len(variables.SecurityGroups) = 0
            THEN <<SECURITY_GROUP>> ELSE <<>>)
         \o (IF variables.CreateLinkedRole THEN <<LINKED_ROLE_NAME>> ELSE <<>>)
    /\ OutputNames =
         (IF variables.VpcId # "" /\ Len(variables.SecurityGroups) = 0
            THEN {"SecurityGroup"} ELSE {})

C1_Witness == Failed /\ Len(template.resources) = 2

(***************************************************************************)
(* C2 (as stated): with EncryptionAtRestKeyId set, a finished build has    *)
(* failed when ElasticsearchVersion < "5.1" in string order and otherwise  *)
(* has succeeded with EncryptionAtRestOptions = {Enabled: true, KmsKeyId:  *)
(* the key}; with the key empty, the encryption error is never raised and  *)
(* the domain has no EncryptionAtRestOptions.                              *)
(***************************************************************************)
C2_EncryptionDecidesBuild ==
  Finished =>
    IF variables.EncryptionAtRestKeyId # ""
      THEN IF StrLess(variables.ElasticsearchVersion, <<"5", ".", "1">>)
             THEN raised \in ValidationErrors
             ELSE /\ Succeeded
                  /\ \A d \in DomainResources :
                       /\ "EncryptionAtRestOptions" \in DOMAIN d.props
                       /\ d.props["EncryptionAtRestOptions"] =
                            [Enabled |-> TRUE,
                             KmsKeyId |-> variables.EncryptionAtRestKeyId]
      ELSE /\ raised # EncryptionError
           /\ \A d \in DomainResources :
                "EncryptionAtRestOptions" \notin DOMAIN d.props

(***************************************************************************)
(* C2 (amended): with EncryptionAtRestKeyId set and ElasticsearchVersion   *)
(* < "5.1" in string order, the build never gets past the domain step and  *)
(* fails with the encryption error; with version >= "5.1" the encryption   *)
(* error is never raised and every build that succeeds carries             *)
(* EncryptionAtRestOptions = {Enabled: true, KmsKeyId: the key}; with the  *)
(* key empty the encryption error is never raised, whatever the version,   *)
(* and the domain has no EncryptionAtRestOptions.                          *)
(***************************************************************************)
C2_EncryptionGate ==
  IF variables.EncryptionAtRestKeyId # ""
    THEN IF StrLess(variables.ElasticsearchVersion, <<"5", ".", "1">>)
           THEN /\ ~StepDone("create_domain")
                /\ Finished => raised = EncryptionError
           ELSE /\ raised # EncryptionError
                /\ Succeeded => DomainResources # {}
                /\ \A d \in DomainResources :
                     /\ "EncryptionAtRestOptions" \in DOMAIN d.props
                     /\ d.props["EncryptionAtRestOptions"] =
                          [Enabled |-> TRUE,
                           KmsKeyId |-> variables.EncryptionAtRestKeyId]
    ELSE /\ raised # EncryptionError
         /\ \A d \in DomainResources :
              "EncryptionAtRestOptions" \notin DOMAIN d.props

C2_Witness ==
  /\ Succeeded
  /\ variables.EncryptionAtRestKeyId # ""
  /\ variables.ElasticsearchVersion = <<"6", ".", "8">>

(***************************************************************************)
(* C3: with Subnets set and both SecurityGroups and VpcId empty the build  *)
(* never gets past the domain step and a finished build has failed with a  *)
(* validation error; with Subnets empty the security-group check never     *)
(* raises.                                                                 *)
(***************************************************************************)
C3_SubnetsNeedSecurityGroupSource ==
  /\ (/\ Len(variables.Subnets) > 0
      /\ Len(variables.SecurityGroups) = 0
      /\ variables.VpcId = "")
       => /\ ~StepDone("create_domain")
          /\ Finished => raised \in ValidationErrors
  /\ Len(variables.Subnets) = 0 => raised # SecurityGroupError

C3_Witness ==
  /\ raised = SecurityGroupError
  /\ Len(variables.Subnets) > 0
  /\ Len(variables.SecurityGroups) = 0
  /\ variables.VpcId = ""

(***************************************************************************)
(* C4: get_access_policy returns None exactly when TrustedNetworks is      *)
(* empty; the domain resource has an AccessPolicies field exactly when     *)
(* TrustedNetworks is non-empty, and then its statements are one per       *)
(* trusted network, in input order, each an Allow of the four ES HTTP      *)
(* actions conditioned on that network's source IP.                        *)
(***************************************************************************)
C4_OneStatementPerTrustedNetwork ==
  LET nets == variables.TrustedNetworks
  IN  /\ (get_access_policy(variables) = None) <=> (Len(nets) = 0)
      /\ \A d \in DomainResources :
           IF Len(nets) > 0
             THEN /\ "AccessPolicies" \in DOMAIN d.props
                  /\ LET st == d.props["AccessPolicies"].Statement
                     IN  /\ Len(st) = Len(nets)
                         /\ \A i \in 1..Len(nets) :
                              /\ st[i].Effect = "Allow"
                              /\ st[i].Condition.IpAddress.SourceIp = nets[i]
                              /\ st[i].Action =
                                   <<"es:ESHttpGet", "es:ESHttpHead",
                                     "es:ESHttpPost", "es:ESHttpDelete">>
             ELSE "AccessPolicies" \notin DOMAIN d.props

C4_Witness ==
  /\ DomainResources # {}
  /\ Len(variables.TrustedNetworks) = MaxNetworks
  /\ variables.TrustedNetworks[1] # variables.TrustedNetworks[2]

(***************************************************************************)
(* C5: once the security group step has run, the template holds exactly    *)
(* one ESSecurityGroup resource and one SecurityGroup output referring to  *)
(* it if VpcId is non-empty and SecurityGroups is empty, and neither       *)
(* otherwise; before the step it holds neither.                            *)
(***************************************************************************)
C5_SecurityGroupIffVpcWithoutGroups ==
  LET wanted == variables.VpcId # "" /\ Len(variables.SecurityGroups) = 0
      n == IF StepDone("create_security_group") /\ wanted THEN 1 ELSE 0
  IN  /\ Cardinality(ResourcesTitled(SECURITY_GROUP)) = n
      /\ Cardinality(OutputsTitled("SecurityGroup")) = n
      /\ \A i \in ResourcesTitled(SECURITY_GROUP) :
           /\ template.resources[i].type = "AWS::EC2::SecurityGroup"
           /\ template.resources[i].props.VpcId = variables.VpcId
      /\ \A i \in OutputsTitled("SecurityGroup") :
           template.outputs[i].Value = Ref("ESSecurityGroup")

C5_Witness ==
  /\ StepDone("create_security_group")
  /\ ResourcesTitled(SECURITY_GROUP) # {}
  /\ OutputsTitled("SecurityGroup") # {}

(***************************************************************************)
(* C6: once the DNS record step has run, no error is raised and the        *)
(* template holds exactly one ESDomainDNSRecord resource (CNAME, TTL       *)
(* "120", name host "." zone, target the domain's DomainEndpoint) and one  *)
(* CNAME output if all of InternalZoneId, InternalZoneName and             *)
(* InternalHostName are non-empty, and neither otherwise; before the step  *)
(* it holds neither.                                                       *)
(***************************************************************************)
C6_DnsRecordIffAllThree ==
  LET all3 == /\ variables.InternalZoneId # ""
              /\ variables.InternalZoneName # ""
              /\ variables.InternalHostName # ""
      n == IF StepDone("create_dns_record") /\ all3 THEN 1 ELSE 0
  IN  /\ StepDone("create_dns_record") => raised = NoError
      /\ Cardinality(ResourcesTitled(DNS_RECORD)) = n
      /\ Cardinality(OutputsTitled("CNAME")) = n
      /\ \A i \in ResourcesTitled(DNS_RECORD) :
           LET r == template.resources[i]
           IN  /\ r.type = "AWS::Route53::RecordSet"
               /\ r.props.Type = "CNAME"
               /\ r.props.TTL = "120"
               /\ r.props.Name = "es.example.com"
               /\ r.props.HostedZoneId = variables.InternalZoneId
               /\ r.props.ResourceRecords =
                    <<GetAtt("ESDomain", "DomainEndpoint")>>
      /\ \A i \in OutputsTitled("CNAME") :
           template.outputs[i].Value = Ref("ESDomainDNSRecord")

C6_Witness ==
  /\ StepDone("create_dns_record")
  /\ ResourcesTitled(DNS_RECORD) # {}

(***************************************************************************)
(* C7 (as stated): every finished build, whatever the inputs, holds        *)
(* exactly one ESDomainAccessPolicy resource attached to the supplied      *)
(* roles.                                                                  *)
(***************************************************************************)
C7_PolicyInEveryBuild ==
  Finished =>
    /\ Cardinality(ResourcesTitled(POLICY_NAME)) = 1
    /\ \A i \in ResourcesTitled(POLICY_NAME) :
         template.resources[i].props.Roles = variables.Roles

(***************************************************************************)
(* C7 (amended): once the roles policy step has run -- in every build in   *)
(* which the domain step raised no validation error -- the template holds  *)
(* exactly one ESDomainAccessPolicy resource, attached to exactly the      *)
(* supplied Roles (the empty list included), whose single statement allows *)
(* the four ES HTTP actions on the domain ARN joined with "/*"; before the *)
(* step, and in a failed build, it holds none.                             *)
(***************************************************************************)
C7_PolicyInEverySuccessfulBuild ==
  /\ Cardinality(ResourcesTitled(POLICY_NAME)) =
       (IF StepDone("create_roles_policy") THEN 1 ELSE 0)
  /\ Succeeded => StepDone("create_roles_policy")
  /\ \A i \in ResourcesTitled(POLICY_NAME) :
       LET r == template.resources[i]
       IN  /\ r.type = "AWS::IAM::Policy"
           /\ r.props.Roles = variables.Roles
           /\ r.props.PolicyDocument.Statement =
                <<[Effect |-> "Allow",
                   Action |-> <<"es:ESHttpGet", "es:ESHttpHead",
                                "es:ESHttpPost", "es:ESHttpDelete">>,
                   Resource |->
                     <<Join("/", <<GetAtt("ESDomain", "DomainArn"),
                                   Lit("*")>>)>>]>>

C7_Witness ==
  /\ Succeeded
  /\ ResourcesTitled(POLICY_NAME) # {}
  /\ Len(variables.Roles) = 0

(***************************************************************************)
(* C8: every domain resource carries ElasticsearchVersion, equal to the    *)
(* variable, and carries each of AdvancedOptions, DomainName, EBSOptions,  *)
(* ElasticsearchClusterConfig, SnapshotOptions, Tags exactly when the      *)
(* variable is non-empty, and then with the variable's value; and every    *)
(* successful build holds a domain resource.                               *)
(***************************************************************************)
C8_OptionalFieldsIffNonEmpty ==
  /\ Succeeded => Cardinality(ResourcesTitled(ES_DOMAIN)) = 1
  /\ \A d \in DomainResources :
       /\ "ElasticsearchVersion" \in DOMAIN d.props
       /\ d.props["ElasticsearchVersion"] = variables.ElasticsearchVersion
       /\ \A key \in {"AdvancedOptions", "EBSOptions",
                      "ElasticsearchClusterConfig", "SnapshotOptions"} :
            /\ (key \in DOMAIN d.props) <=> (DOMAIN variables[key] # {})
            /\ key \in DOMAIN d.props => d.props[key] = variables[key]
       /\ ("DomainName" \in DOMAIN d.props) <=> (variables.DomainName # "")
       /\ "DomainName" \in DOMAIN d.props =>
            d.props["DomainName"] = variables.DomainName
       /\ ("Tags" \in DOMAIN d.props) <=> (Len(variables.Tags) > 0)
       /\ "Tags" \in DOMAIN d.props => d.props["Tags"] = variables.Tags

C8_Witness ==
  /\ Succeeded
  /\ \E d \in DomainResources :
       /\ "EBSOptions" \in DOMAIN d.props
       /\ "Tags" \in DOMAIN d.props
       /\ "DomainName" \notin DOMAIN d.props
       /\ "SnapshotOptions" \notin DOMAIN d.props

(***************************************************************************)
(* C9: in every state the resource identifiers appended so far are a       *)
(* subsequence of ESSecurityGroup, ESLinkedRole, ESDomain,                 *)
(* ESDomainDNSRecord, ESDomainAccessPolicy.                                *)
(***************************************************************************)
C9_ResourcesInFixedOrder ==
  IsSubsequence(Titles,
                <<"ESSecurityGroup", "ESLinkedRole", "ESDomain",
                  "ESDomainDNSRecord", "ESDomainAccessPolicy">>)

C9_Witness == Succeeded /\ Len(template.resources) = 5

(***************************************************************************)
(* C10: in a successful build every resource identifier referred to from a *)
(* resource or an output is a resource of the template; and when Subnets   *)
(* is non-empty, VPCOptions.SecurityGroupIds is the SecurityGroups list if *)
(* that is non-empty and otherwise the single Ref to ESSecurityGroup,      *)
(* which the security group step then created.                             *)
(***************************************************************************)
C10_NoDanglingReferences ==
  Succeeded =>
    /\ TemplateRefs \subseteq {Titles[i] : i \in 1..Len(Titles)}
    /\ \A d \in DomainResources :
         ("VPCOptions" \in DOMAIN d.props) <=> (Len(variables.Subnets) > 0)
    /\ Len(variables.Subnets) > 0 =>
         \A d \in DomainResources :
           IF Len(variables.SecurityGroups) > 0
             THEN d.props["VPCOptions"].SecurityGroupIds =
                    variables.SecurityGroups
             ELSE /\ d.props["VPCOptions"].SecurityGroupIds =
                       <<Ref("ESSecurityGroup")>>
                  /\ ResourcesTitled(SECURITY_GROUP) # {}

C10_Witness ==
  /\ Succeeded
  /\ Len(variables.Subnets) > 0
  /\ Len(variables.SecurityGroups) = 0
  /\ "ESSecurityGroup" \in TemplateRefs
  /\ "ESDomain" \in TemplateRefs
  /\ "ESDomainDNSRecord" \in TemplateRefs

====
